---- MODULE Spec2Model ----
(***************************************************************************)
(* A model of the chess dashboard web client (src/src/App.js and its       *)
(* variants): the backend data load of App, the 24-hour player-analysis    *)
(* cache, and the Game Analysis component with its engine worker.          *)
(*                                                                         *)
(* Four specifications share the module's variables; each moves only its   *)
(* own group and leaves the other groups at their initial values:          *)
(*   AppSpec     App: useTheme, loadAllData and fetchData, the tabs         *)
(*   PlayerSpec  PlayerStats and fetchPlayerAnalysis                        *)
(*   Spec        GameAnalysis, the tab switch that mounts it, the worker    *)
(*   Spec002     the same with the GameAnalysis of src/unnamed/part_002     *)
(***************************************************************************)
EXTENDS Integers, Sequences, FiniteSets, TLC

VARIABLES
    \* ---- App (src/src/App.js:672-723) ----
    loading,          \* useState(true)
    error,            \* useState(null): NoError or the banner text
    currentRatings,   \* useState([]): sequence of rating rows
    ratingHistory,    \* useState([]): sequence of history rows
    pcLoad,           \* position of the async loadAllData
    ratingsData,      \* local of loadAllData: value of the first await
    historyData,      \* local of loadAllData: value of the second await
    requests,         \* the backend requests issued so far, in order
    responses,        \* how each issued request settled, in order
    activeTab,        \* useState('Dashboard')
    \* ---- useTheme (src/src/App.js:7-16) ----
    theme,            \* useState(() => localStorage.getItem('theme') || 'light')
    storedTheme,      \* localStorage['theme'], NoTheme while it is not set
    rootClasses,      \* window.document.documentElement.classList
    \* ---- GameAnalysis (src/src/App.js:459-670) ----
    pgn,              \* useState(''): the textarea, a sequence of PGN tokens
    pgnError,         \* useState('')
    game,             \* useState(new Chess()): the displayed game
    history,          \* useState([]): the SAN of each move of the loaded game
    currentMove,      \* useState(-1)
    evaluation,       \* useState('')
    topMoves,         \* useState([])
    engineStatus,     \* useState('Loading...')
    stockfish,        \* useRef(null): the worker, 0 for null
    currentGameForEngine,  \* useRef(new Chess())
    \* ---- the engine workers ----
    workerStatus,     \* per worker: "none", "running" or "terminated"
    listening,        \* the workers that have onMessage attached
    inbox,            \* commands posted to the current worker, not yet read
    outbox,           \* messages the current worker posted, not yet delivered
    enginePos,        \* the engine's position (set by 'position fen')
    search,           \* the engine's running search
    \* ---- history variables ----
    reqPos,           \* the FEN of the latest 'position fen' posted
    evalFor,          \* the FEN searched by the line evaluation was read from
    topFor,           \* the FEN searched by the line topMoves was read from
    \* ---- PlayerStats and fetchPlayerAnalysis (src/src/App.js:126-220, 368-379) ----
    now,              \* new Date(), in milliseconds
    ticks,            \* how often the clock has advanced
    cache,            \* localStorage['playerAnalysis_' + username]
    ecoStored,        \* localStorage['lichessEcoTsv'] is set
    ecoDataPromise,   \* the module's ecoDataPromise: "null", "pending", "fulfilled", "rejected"
    calls,            \* the fetchPlayerAnalysis calls waiting for the network
    nCalls,           \* fetchPlayerAnalysis calls that went past the cache
    netRequests,      \* network requests issued by fetchPlayerAnalysis so far
    selectedPlayer,   \* useState(FRIENDS[0].username)
    playerData,       \* useState(null)
    psLoading,        \* useState(true), the loading of PlayerStats
    psPc,             \* "mount" until the effect of PlayerStats has run
    \* ---- GameAnalysis of src/unnamed/part_003 (359-577) ----
    listeners,        \* the onMessage closures of getEvaluation attached to the worker
    messageHistory,   \* useRef([]): the engine lines pushed by the listeners
    commentary,       \* useState('')
    isGeneratingCommentary,  \* useState(false)
    commentaryCalls,  \* getAiCommentary requests in flight
    moveThrows,       \* chess.move() throws on an illegal move (or returns null)
    \* ---- handleLoadPgn (src/src/App.js:540-558) ----
    cleanResult       \* the cleanedPgn computed by handleLoadPgn from a given text

themeVars == <<theme, storedTheme, rootClasses>>

appVars == <<loading, error, currentRatings, ratingHistory, pcLoad,
             ratingsData, historyData, requests, responses, themeVars>>

\* the state of a mounted GameAnalysis
gaState == <<pgn, pgnError, game, history, currentMove, evaluation, topMoves,
             engineStatus, stockfish, currentGameForEngine>>

workerVars == <<workerStatus, listening, inbox, outbox, enginePos, search>>

ghostVars == <<reqPos, evalFor, topFor>>

gaVars == <<activeTab, gaState, workerVars, ghostVars>>

psVars == <<now, ticks, cache, ecoStored, ecoDataPromise, calls, nCalls, netRequests,
            selectedPlayer, playerData, psLoading, psPc>>

ga3Vars == <<listeners, messageHistory, commentary, isGeneratingCommentary,
             commentaryCalls, moveThrows>>

extraVars == <<ga3Vars, cleanResult>>

vars == <<appVars, gaVars, psVars, extraVars>>

-----------------------------------------------------------------------------
(* JSON values. A parsed body is an array (a sequence of records) or not    *)
(* an array (an object such as {"error": ...}, or null).                    *)

JArray(items) == [kind |-> "array", items |-> items]
JObject == [kind |-> "object", items |-> <<>>]
JNull == [kind |-> "null", items |-> <<>>]

\* Array.isArray
IsArray(v) == v.kind = "array"

\* the literal [] that fetchData returns from its catch block
EmptyList == JArray(<<>>)

-----------------------------------------------------------------------------
(* Constants of src/src/App.js.                                             *)

RatingsEndpoint == "/ratings/current"
HistoryEndpoint == "/ratings/history"

NoError == "null"
BannerText == "Could not connect to the backend API. Please ensure the 'api.py' server is running."

\* FRIENDS.reduce(...): display name -> chess.com username
friendUsernameMap(name) ==
    CASE name = "Ulysse" -> "realulysse"
      [] name = "Simon"  -> "poulet_tao"
      [] name = "Adrien" -> "adrienbourque"
      [] name = "Alex"   -> "naatiry"
      [] name = "Kevin"  -> "kevor24"
      [] OTHER           -> "undefined"

MANUAL_INITIAL_RATINGS(username) ==
    CASE username = "realulysse"    -> [Rapid |-> 1971, Blitz |-> 1491, Bullet |-> 1349]
      [] username = "poulet_tao"    -> [Rapid |-> 1006, Blitz |-> 413, Bullet |-> 716]
      [] username = "adrienbourque" -> [Rapid |-> 1619, Blitz |-> 1163, Bullet |-> 747]
      [] username = "naatiry"       -> [Rapid |-> 874, Blitz |-> 315, Bullet |-> 487]
      [] username = "kevor24"       -> [Rapid |-> 702, Blitz |-> 846, Bullet |-> 577]

HasInitialRatings(username) ==
    username \in {"realulysse", "poulet_tao", "adrienbourque", "naatiry", "kevor24"}

-----------------------------------------------------------------------------
(* The backend as the client sees it: what one request can come to.         *)

\* rating rows the backend may serve: a friend of FRIENDS, and a name that
\* is not in FRIENDS
RowUlysse == [friend_name |-> "Ulysse", rapid_rating |-> 2000,
              blitz_rating |-> 1400, bullet_rating |-> 1349]
RowGuest  == [friend_name |-> "Guest", rapid_rating |-> 1200,
              blitz_rating |-> 1100, bullet_rating |-> 1000]

Bodies ==
    { JArray(<<>>), JArray(<<RowUlysse>>), JArray(<<RowUlysse, RowGuest>>),
      JArray(<<RowGuest, RowUlysse>>), JObject, JNull }

\* rejects: fetch() rejected (no connection); ok: response.ok;
\* parses: response.json() succeeds, giving body
Outcomes ==
    { [rejects |-> TRUE, ok |-> FALSE, parses |-> FALSE, body |-> JNull] }
    \cup { [rejects |-> FALSE, ok |-> k, parses |-> FALSE, body |-> JNull] : k \in BOOLEAN }
    \cup { [rejects |-> FALSE, ok |-> k, parses |-> TRUE, body |-> b] :
             k \in BOOLEAN, b \in Bodies }

Resolved(v) == [rejected |-> FALSE, value |-> v]
Rejected == [rejected |-> TRUE, value |-> JNull]

\* fetchData without the response.ok test
fetchDataNoOkCheck(o) ==
    IF o.rejects THEN Resolved(EmptyList)
    ELSE IF ~o.parses THEN Resolved(EmptyList)
    ELSE Resolved(o.body)

\* async function fetchData(endpoint): the promise it returns, given how the
\* request comes out
fetchData(o) ==
    IF o.rejects THEN Resolved(EmptyList)             \* await fetch throws -> catch
    ELSE IF ~o.ok THEN Resolved(EmptyList)            \* throw new Error -> catch
    ELSE IF ~o.parses THEN Resolved(EmptyList)        \* response.json() throws -> catch
    ELSE Resolved(o.body)

ChangeFields == {"rapid_change", "blitz_change", "bullet_change"}

\* the callback of ratingsData.map: { ...player, rapid_change, ... }
WithChanges(player) ==
    LET username == friendUsernameMap(player.friend_name)
        has == HasInitialRatings(username)
        rapid_change == IF has THEN player.rapid_rating - MANUAL_INITIAL_RATINGS(username).Rapid ELSE 0
        blitz_change == IF has THEN player.blitz_rating - MANUAL_INITIAL_RATINGS(username).Blitz ELSE 0
        bullet_change == IF has THEN player.bullet_rating - MANUAL_INITIAL_RATINGS(username).Bullet ELSE 0
    IN [f \in (DOMAIN player) \cup ChangeFields |->
           CASE f = "rapid_change"  -> rapid_change
             [] f = "blitz_change"  -> blitz_change
             [] f = "bullet_change" -> bullet_change
             [] OTHER               -> player[f]]

RECURSIVE SelectSeqFriends(_)
SelectSeqFriends(s) ==
    IF s = <<>> THEN <<>>
    ELSE IF HasInitialRatings(friendUsernameMap(Head(s).friend_name))
         THEN <<Head(s)>> \o SelectSeqFriends(Tail(s))
         ELSE SelectSeqFriends(Tail(s))

\* ratingsWithChanges that keeps only the rows of known friends
ratingsWithChangesFriendsOnly(items) ==
    LET kept == SelectSeqFriends(items)
    IN [i \in 1..Len(kept) |-> WithChanges(kept[i])]

\* const ratingsWithChanges = ratingsData.map(...)
ratingsWithChanges(items) == [i \in 1..Len(items) |-> WithChanges(items[i])]

-----------------------------------------------------------------------------
(* App.loadAllData, one step per await.                                     *)

AppInit ==
    /\ loading = TRUE
    /\ error = NoError
    /\ currentRatings = <<>>
    /\ ratingHistory = <<>>
    /\ pcLoad = "mount"
    /\ ratingsData = JNull
    /\ historyData = JNull
    /\ requests = <<>>
    /\ responses = <<>>

\* catch (e) { setError(...) } finally { setLoading(false) }
LoadCatch ==
    /\ error' = BannerText
    /\ loading' = FALSE
    /\ pcLoad' = "done"
    /\ UNCHANGED <<currentRatings, ratingHistory>>

\* loadAllData that issues both requests at once
LoadAllDataStartParallel ==
    /\ pcLoad = "mount"
    /\ loading' = TRUE
    /\ error' = NoError
    /\ requests' = requests \o <<RatingsEndpoint, HistoryEndpoint>>
    /\ pcLoad' = "awaitRatings"
    /\ UNCHANGED <<currentRatings, ratingHistory, ratingsData, historyData, responses>>

\* the mount effect: loadAllData() up to its first await
LoadAllDataStart ==
    /\ pcLoad = "mount"
    /\ loading' = TRUE
    /\ error' = NoError
    /\ requests' = Append(requests, RatingsEndpoint)
    /\ pcLoad' = "awaitRatings"
    /\ UNCHANGED <<currentRatings, ratingHistory, ratingsData, historyData, responses>>

\* the first await settles; the second fetchData is called
RatingsSettled ==
    /\ pcLoad = "awaitRatings"
    /\ \E o \in Outcomes :
         LET r == fetchData(o) IN
         /\ responses' = Append(responses, o)
         /\ IF r.rejected
            THEN /\ LoadCatch
                 /\ UNCHANGED <<ratingsData, historyData, requests>>
            ELSE /\ ratingsData' = r.value
                 /\ requests' = Append(requests, HistoryEndpoint)
                 /\ pcLoad' = "awaitHistory"
                 /\ UNCHANGED <<loading, error, currentRatings, ratingHistory, historyData>>

\* the rest of the try block once both payloads are there, setting the
\* ratings before the Array.isArray test
LoadAllDataFinishEager(rd, hd) ==
    /\ currentRatings' = IF IsArray(rd) THEN ratingsWithChanges(rd.items) ELSE currentRatings
    /\ IF ~IsArray(rd) \/ ~IsArray(hd)
       THEN /\ error' = BannerText
            /\ UNCHANGED ratingHistory
       ELSE /\ ratingHistory' = hd.items
            /\ UNCHANGED error
    /\ loading' = FALSE
    /\ pcLoad' = "done"

\* the rest of the try block once both payloads are there, then finally
LoadAllDataFinish(rd, hd) ==
    IF ~IsArray(rd) \/ ~IsArray(hd)
    THEN LoadCatch                                    \* throw new Error(...)
    ELSE /\ currentRatings' = ratingsWithChanges(rd.items)
         /\ ratingHistory' = hd.items
         /\ loading' = FALSE
         /\ pcLoad' = "done"
         /\ UNCHANGED error

\* the second await settles
HistorySettled ==
    /\ pcLoad = "awaitHistory"
    /\ \E o \in Outcomes :
         LET r == fetchData(o) IN
         /\ responses' = Append(responses, o)
         /\ UNCHANGED <<ratingsData, requests>>
         /\ IF r.rejected
            THEN /\ LoadCatch
                 /\ UNCHANGED historyData
            ELSE /\ historyData' = r.value
                 /\ LoadAllDataFinish(ratingsData, r.value)

-----------------------------------------------------------------------------
(* useTheme and App.toggleTheme (src/src/App.js:7-16, 742).                 *)

\* localStorage.getItem('theme') is null
NoTheme == "null"

Themes == {"light", "dark"}

\* the useState initialiser: localStorage.getItem('theme') || 'light'
InitialTheme(stored) == IF stored = NoTheme THEN "light" ELSE stored

\* prevTheme => prevTheme === 'light' ? 'dark' : 'light'
toggleTheme(prevTheme) == IF prevTheme = "light" THEN "dark" ELSE "light"

\* the effect of useTheme without root.classList.remove
ThemeEffectKeepOther(t) ==
    /\ rootClasses' = rootClasses \cup {t}
    /\ storedTheme' = t

\* the effect of useTheme, run for theme t: the class of the other theme is
\* removed, the class of t added, and t stored
ThemeEffect(t) ==
    /\ rootClasses' = (rootClasses \ {IF t = "light" THEN "dark" ELSE "light"}) \cup {t}
    /\ storedTheme' = t

\* the first visit: nothing stored, a fresh document
ThemeInit ==
    /\ storedTheme = NoTheme
    /\ theme = InitialTheme(storedTheme)
    /\ rootClasses = {}

\* the mount of App: the effect of useTheme, then loadAllData() up to its
\* first await
AppMount ==
    /\ LoadAllDataStart
    /\ ThemeEffect(theme)
    /\ UNCHANGED theme

\* the 'Switch Theme' button onClick: setTheme(toggleTheme), the render and
\* the effect of useTheme
SwitchTheme ==
    /\ pcLoad # "mount"
    /\ theme' = toggleTheme(theme)
    /\ ThemeEffect(theme')
    /\ UNCHANGED <<loading, error, currentRatings, ratingHistory, pcLoad,
                   ratingsData, historyData, requests, responses>>

-----------------------------------------------------------------------------
(* The chess rules library as GameAnalysis uses it (chess.js: Chess, fen,   *)
(* move, undo, loadPgn, history). The game is cut down to four moves, two   *)
(* per side; a move is legal for the side to move while it has not been     *)
(* played. A FEN is the set of moves played: it fixes the position and the  *)
(* side to move and forgets the order of the moves, as a real FEN does.     *)

WhiteMoves == {"e4", "Nf3"}
BlackMoves == {"e5", "Nc6"}
SanMoves == WhiteMoves \cup BlackMoves

\* new Chess().fen()
StartFen == {}

\* a value no FEN equals
NoFen == {"-"}

\* new Chess(fen); new Chess() is NewChess(StartFen)
NewChess(fen) == [start |-> fen, moves |-> <<>>]

\* chess.fen()
Fen(chess) == chess.start \cup {chess.moves[i] : i \in 1..Len(chess.moves)}

WhiteToMove(fen) == Cardinality(fen) % 2 = 0

Legal(fen, san) ==
    /\ san \notin fen
    /\ IF WhiteToMove(fen) THEN san \in WhiteMoves ELSE san \in BlackMoves

\* chess.move(san) on a legal move
Move(chess, san) == [chess EXCEPT !.moves = Append(@, san)]

\* the engine's coordinate notation for a move, and back (the sloppy parser
\* of chess.move reads it and move.san is the standard notation)
SanToUci(san) ==
    CASE san = "e4" -> "e2e4" [] san = "Nf3" -> "g1f3"
      [] san = "e5" -> "e7e5" [] san = "Nc6" -> "b8c6"

UciMoves == {SanToUci(m) : m \in SanMoves}

UciToSan(uci) ==
    CASE uci = "e2e4" -> "e4" [] uci = "g1f3" -> "Nf3"
      [] uci = "e7e5" -> "e5" [] uci = "b8c6" -> "Nc6"

\* replaying moves[1..n] from the start: the loop of navigateToMove
RECURSIVE Replay(_, _)
Replay(moves, n) ==
    IF n <= 0 THEN NewChess(StartFen) ELSE Move(Replay(moves, n - 1), moves[n])

-----------------------------------------------------------------------------
(* PGN text, as a sequence of tokens: a tag pair "[T]" or "[U]", the        *)
(* brackets of a comment "{" "}" and of a variation "(" ")", a numeric      *)
(* glyph "$1", free text "c", and SAN moves.                                *)

IsTag(t) == t \in {"[T]", "[U]"}

\* pgnString.match(tagRegex) and pgnString.replace(tagRegex, '')
RECURSIVE SelectTokens(_, _)
SelectTokens(s, tags) ==
    IF s = <<>> THEN <<>>
    ELSE IF IsTag(Head(s)) = tags THEN <<Head(s)>> \o SelectTokens(Tail(s), tags)
         ELSE SelectTokens(Tail(s), tags)

\* index of the first close in s, 0 when there is none
RECURSIVE FirstIndex(_, _, _)
FirstIndex(s, close, i) ==
    IF i > Len(s) THEN 0
    ELSE IF s[i] = close THEN i ELSE FirstIndex(s, close, i + 1)

\* s.replace(/open[^close]*?close/g, ''): each open up to the next close is
\* removed, scanning from the left; an open with no close after it stays
RECURSIVE RemoveSpans(_, _, _)
RemoveSpans(s, open, close) ==
    IF s = <<>> THEN <<>>
    ELSE IF Head(s) = open /\ FirstIndex(s, close, 2) > 0
         THEN RemoveSpans(SubSeq(s, FirstIndex(s, close, 2) + 1, Len(s)), open, close)
         ELSE <<Head(s)>> \o RemoveSpans(Tail(s), open, close)

\* s.replace(/\$\d+/g, '')
RECURSIVE RemoveNags(_)
RemoveNags(s) ==
    IF s = <<>> THEN <<>>
    ELSE IF Head(s) = "$1" THEN RemoveNags(Tail(s))
         ELSE <<Head(s)>> \o RemoveNags(Tail(s))

\* the cleaning that removes the variations before the comments
CleanPgnVariationsFirst(text) ==
    LET tags == SelectTokens(text, TRUE)
        movetext == SelectTokens(text, FALSE)
        cleanedMovetext == RemoveNags(RemoveSpans(RemoveSpans(movetext, "(", ")"), "{", "}"))
    IN tags \o cleanedMovetext

\* the cleaning that leaves the variations in the movetext
CleanPgnKeepVariations(text) ==
    LET tags == SelectTokens(text, TRUE)
        movetext == SelectTokens(text, FALSE)
        cleanedMovetext == RemoveNags(RemoveSpans(movetext, "{", "}"))
    IN tags \o cleanedMovetext

\* handleLoadPgn steps 1-4: tags.join('\n') + '\n\n' + cleanedMovetext
CleanPgn(text) ==
    LET tags == SelectTokens(text, TRUE)
        movetext == SelectTokens(text, FALSE)
        cleanedMovetext == RemoveNags(RemoveSpans(RemoveSpans(movetext, "{", "}"), "(", ")"))
    IN tags \o cleanedMovetext

\* newGame.loadPgn(cleanedPgn) on a fresh game: the moves it plays, or a
\* throw when a movetext token is not a move that is legal where it stands
RECURSIVE PlayTokens(_, _)
PlayTokens(chess, s) ==
    IF s = <<>> THEN [ok |-> TRUE, chess |-> chess]
    ELSE IF IsTag(Head(s)) THEN PlayTokens(chess, Tail(s))
    ELSE IF Head(s) \in SanMoves /\ Legal(Fen(chess), Head(s))
         THEN PlayTokens(Move(chess, Head(s)), Tail(s))
         ELSE [ok |-> FALSE, chess |-> chess]

LoadPgn(cleanedPgn) == PlayTokens(NewChess(StartFen), cleanedPgn)

\* what the user may paste
PgnInputs ==
    { <<>>,
      <<"[T]">>,
      <<"e4", "e5">>,
      <<"[T]", "e4", "{", "c", "}", "e5", "$1", "(", "Nc6", ")", "Nf3", "Nc6">>,
      <<"e4", "e4">>,
      <<"e4", "{", "c">> }

NoMovesText == "The PGN was loaded, but it contains no moves."
FallbackText == "An unexpected error occurred while loading the PGN."
\* e.message of an error thrown by loadPgn
LibraryMessages == {"Invalid move in PGN", ""}

-----------------------------------------------------------------------------
(* The engine worker, as the protocol of spec section 6 describes it: it    *)
(* reads the commands posted to it in order, answers 'uci' with an id line  *)
(* and 'uciok', 'isready' with 'readyok', and 'go depth N' with a series of *)
(* 'info' lines and a 'bestmove'. While a search runs the commands behind   *)
(* it wait.                                                                 *)

MaxWorkers == 2      \* workers created, one per mount of GameAnalysis
MaxInbox == 2        \* commands waiting at the worker
MaxOutbox == 2       \* messages waiting at the page
InfoLines == 2       \* 'info' lines of one search

Tabs == {"Dashboard", "Player Stats", "Game Analysis"}

Cmd(name) == [cmd |-> name, fen |-> NoFen]
PositionCmd(fen) == [cmd |-> "position", fen |-> fen]

\* a message of the worker: its type, the kind of score and the centipawns
\* of an info line, its pv in coordinate notation, and the FEN searched
Msg(type) == [type |-> type, score |-> "none", cp |-> 0, pv |-> <<>>, for |-> NoFen]

\* the engine's score of a position at info line k
ScoreCp(fen, k) ==
    LET n == Cardinality(fen)
    IN IF WhiteToMove(fen) THEN 30 + 100 * n + k ELSE 0 - (45 + 100 * n + k)

UciOrder == <<"e2e4", "g1f3", "e7e5", "b8c6">>

\* the engine's principal variation from a position: at each ply the first
\* legal move of UciOrder
RECURSIVE PvLine(_, _)
PvLine(fen, n) ==
    LET legal == {i \in 1..Len(UciOrder) : Legal(fen, UciToSan(UciOrder[i]))}
        best == CHOOSE i \in legal : \A j \in legal : i <= j
    IN IF n = 0 \/ legal = {} THEN <<>>
       ELSE <<UciOrder[best]>> \o PvLine(fen \cup {UciToSan(UciOrder[best])}, n - 1)

PvLength == 4

\* 'info depth k score cp N pv ...'; 'info depth k score mate 1 pv ...'
\* where the best move leaves no reply; 'info depth 0 score mate 0' where
\* the side to move has no move
InfoLine(fen, k) ==
    IF PvLine(fen, PvLength) = <<>>
    THEN [type |-> "info", score |-> "mate", cp |-> 0, pv |-> <<>>, for |-> fen]
    ELSE IF Len(PvLine(fen, 2)) = 1
    THEN [type |-> "info", score |-> "mate", cp |-> 0, pv |-> PvLine(fen, PvLength), for |-> fen]
    ELSE [type |-> "info", score |-> "cp", cp |-> ScoreCp(fen, k),
          pv |-> PvLine(fen, PvLength), for |-> fen]

BestMove(fen) == [Msg("bestmove") EXCEPT !.for = fen]

Idle == [active |-> FALSE, fen |-> StartFen, line |-> 0]

\* the worker reads the next command
EngineReceive ==
    /\ stockfish # 0
    /\ workerStatus[stockfish] = "running"
    /\ ~search.active
    /\ inbox # <<>>
    /\ inbox' = Tail(inbox)
    /\ LET c == Head(inbox) IN
       CASE c.cmd = "uci" ->
              /\ Len(outbox) + 2 <= MaxOutbox
              /\ outbox' = outbox \o <<Msg("id"), Msg("uciok")>>
              /\ UNCHANGED <<enginePos, search>>
         [] c.cmd = "isready" ->
              /\ Len(outbox) < MaxOutbox
              /\ outbox' = Append(outbox, Msg("readyok"))
              /\ UNCHANGED <<enginePos, search>>
         [] c.cmd = "position" ->
              /\ enginePos' = c.fen
              /\ UNCHANGED <<outbox, search>>
         [] c.cmd = "go" ->
              /\ search' = [active |-> TRUE, fen |-> enginePos, line |-> 0]
              /\ UNCHANGED <<outbox, enginePos>>
    /\ UNCHANGED <<appVars, psVars, extraVars, activeTab, gaState, workerStatus, listening, ghostVars>>

\* the running search posts its next line
EngineEmit ==
    /\ stockfish # 0
    /\ workerStatus[stockfish] = "running"
    /\ search.active
    /\ Len(outbox) < MaxOutbox
    /\ IF search.line < InfoLines
       THEN /\ outbox' = Append(outbox, InfoLine(search.fen, search.line + 1))
            /\ search' = [search EXCEPT !.line = @ + 1]
       ELSE /\ outbox' = Append(outbox, BestMove(search.fen))
            /\ search' = Idle
    /\ UNCHANGED <<appVars, psVars, extraVars, activeTab, gaState, workerStatus, listening, inbox,
                   enginePos, ghostVars>>

-----------------------------------------------------------------------------
(* GameAnalysis (src/src/App.js:459-670) and the tab switch that mounts it. *)

\* evaluation: '', '...' or (N / 100).toFixed(2), the latter as sign, whole
\* pawns and hundredths
EvalEmpty == [kind |-> "empty", neg |-> FALSE, whole |-> 0, frac |-> 0]
EvalPending == [kind |-> "pending", neg |-> FALSE, whole |-> 0, frac |-> 0]

\* the conversion that loses the sign (a pattern of digits only)
ToFixed2Unsigned(cp) ==
    LET abs == IF cp < 0 THEN 0 - cp ELSE cp
    IN [kind |-> "score", neg |-> FALSE, whole |-> abs \div 100, frac |-> abs % 100]

\* (parseInt(scoreMatch[1], 10) / 100).toFixed(2)
ToFixed2(cp) ==
    LET abs == IF cp < 0 THEN 0 - cp ELSE cp
    IN [kind |-> "score", neg |-> cp < 0, whole |-> abs \div 100, frac |-> abs % 100]

\* Math.min(3, moves.length)
TopMovesLimit == 3

Min(a, b) == IF a < b THEN a ELSE b

\* the useState/useRef initial values of GameAnalysis, as the next state
FreshComponent ==
    /\ pgn' = <<>>
    /\ pgnError' = ""
    /\ game' = NewChess(StartFen)
    /\ history' = <<>>
    /\ currentMove' = -1
    /\ evaluation' = EvalEmpty
    /\ topMoves' = <<>>
    /\ engineStatus' = "Loading..."
    /\ currentGameForEngine' = NewChess(StartFen)

FreshGhosts ==
    /\ reqPos' = NoFen
    /\ evalFor' = NoFen
    /\ topFor' = NoFen

\* the number of workers created so far
Created == Cardinality({w \in 1..MaxWorkers : workerStatus[w] # "none"})

\* the effect's cleanup that leaves the worker running with its listener
CleanupLeaky(w) ==
    /\ listening' = listening
    /\ workerStatus' = workerStatus

\* the effect's cleanup: worker.removeEventListener('message', onMessage);
\* worker.terminate(), after which nothing of the worker is delivered
Cleanup(w) ==
    /\ listening' = listening \ {w}
    /\ workerStatus' = [workerStatus EXCEPT ![w] = "terminated"]

\* renderTab shows GameAnalysis
Mounted == ~loading /\ error = NoError /\ activeTab = "Game Analysis"

\* renderTab shows a tab, not the loading text or the banner
Rendered == ~loading /\ error = NoError

\* the mount of GameAnalysis: its initial state and the engine init effect
\* up to worker.postMessage('uci')
MountGameAnalysis ==
    /\ Created < MaxWorkers
    /\ FreshComponent /\ FreshGhosts
    /\ stockfish' = Created + 1
    /\ workerStatus' = [workerStatus EXCEPT ![Created + 1] = "running"]
    /\ listening' = listening \cup {Created + 1}
    /\ inbox' = <<Cmd("uci")>> /\ outbox' = <<>>
    /\ enginePos' = StartFen /\ search' = Idle

\* NavItem onClick that also starts the data load again
SetActiveTabReloading(name) ==
    /\ name # activeTab
    /\ activeTab' = name
    /\ loading' = TRUE
    /\ UNCHANGED <<error, currentRatings, ratingHistory, pcLoad, ratingsData, historyData,
                   requests, responses, themeVars, gaState, workerVars, ghostVars, psVars, extraVars>>

\* NavItem onClick: setActiveTab(name), and where renderTab shows the tabs
\* the unmount of the tab left (with the cleanup of its effect) and the
\* mount of the tab entered
SetActiveTab(name) ==
    /\ name # activeTab
    /\ activeTab' = name
    /\ IF Rendered /\ activeTab = "Game Analysis"
       THEN /\ Cleanup(stockfish)
            /\ FreshComponent /\ FreshGhosts
            /\ stockfish' = 0
            /\ inbox' = <<>> /\ outbox' = <<>>
            /\ enginePos' = StartFen /\ search' = Idle
       ELSE IF Rendered /\ name = "Game Analysis"
       THEN MountGameAnalysis
       ELSE UNCHANGED <<gaState, workerVars, ghostVars>>
    /\ UNCHANGED <<appVars, psVars, extraVars>>

\* the render that follows the end of loadAllData: GameAnalysis mounts if
\* its tab is the active one and there is no banner
RenderLoaded ==
    IF ~loading' /\ error' = NoError /\ activeTab = "Game Analysis"
    THEN MountGameAnalysis /\ UNCHANGED activeTab
    ELSE UNCHANGED gaVars

\* the page is loaded again: a new document and a new App, with what
\* localStorage holds
Reload ==
    /\ pcLoad # "mount"
    /\ loading' = TRUE
    /\ error' = NoError
    /\ currentRatings' = <<>>
    /\ ratingHistory' = <<>>
    /\ pcLoad' = "mount"
    /\ ratingsData' = JNull
    /\ historyData' = JNull
    /\ requests' = <<>>
    /\ responses' = <<>>
    /\ theme' = InitialTheme(storedTheme)
    /\ rootClasses' = {}
    /\ activeTab' = "Dashboard"
    /\ FreshComponent /\ FreshGhosts
    /\ stockfish' = 0
    /\ workerStatus' = [w \in 1..MaxWorkers |-> "none"]
    /\ listening' = {}
    /\ inbox' = <<>> /\ outbox' = <<>>
    /\ enginePos' = StartFen /\ search' = Idle
    /\ UNCHANGED <<storedTheme, psVars, extraVars>>

\* textarea onChange
SetPgn(text) ==
    /\ Mounted
    /\ text # pgn
    /\ pgn' = text
    /\ UNCHANGED <<appVars, psVars, extraVars, activeTab, pgnError, game, history, currentMove, evaluation,
                   topMoves, engineStatus, stockfish, currentGameForEngine,
                   workerVars, ghostVars>>

\* getEvaluation without the test of engineStatus
getEvaluationUngated(fen) ==
    /\ evaluation' = EvalPending
    /\ topMoves' = <<>>
    /\ inbox' = inbox \o <<PositionCmd(fen), Cmd("go")>>
    /\ reqPos' = fen
    /\ evalFor' = NoFen
    /\ topFor' = NoFen

\* const getEvaluation = (fen) => ...
getEvaluation(fen) ==
    IF engineStatus # "Ready" \/ stockfish = 0
    THEN UNCHANGED <<evaluation, topMoves, inbox, reqPos, evalFor, topFor>>
    ELSE /\ evaluation' = EvalPending
         /\ topMoves' = <<>>
         /\ inbox' = inbox \o <<PositionCmd(fen), Cmd("go")>>
         /\ reqPos' = fen
         /\ evalFor' = NoFen
         /\ topFor' = NoFen

\* room at the worker for the two commands of a request
RoomForRequest == engineStatus = "Ready" => Len(inbox) + 2 <= MaxInbox

\* the catch block of handleLoadPgn without the reset of the move list
LoadPgnCatchKeepHistory(message) ==
    /\ pgnError' = (IF message = "" THEN FallbackText ELSE message)
    /\ game' = NewChess(StartFen)
    /\ currentMove' = -1
    /\ evaluation' = EvalEmpty
    /\ topMoves' = <<>>
    /\ evalFor' = NoFen
    /\ topFor' = NoFen
    /\ UNCHANGED <<history, currentGameForEngine, inbox, reqPos>>

\* the catch block of handleLoadPgn
LoadPgnCatch(message) ==
    /\ pgnError' = (IF message = "" THEN FallbackText ELSE message)
    /\ game' = NewChess(StartFen)
    /\ history' = <<>>
    /\ currentMove' = -1
    /\ evaluation' = EvalEmpty
    /\ topMoves' = <<>>
    /\ evalFor' = NoFen
    /\ topFor' = NoFen
    /\ UNCHANGED <<currentGameForEngine, inbox, reqPos>>

\* the chess library rejects the cleaned PGN, or it holds no move
LoadFails(text) ==
    \/ ~LoadPgn(CleanPgn(text)).ok
    \/ LoadPgn(CleanPgn(text)).chess.moves = <<>>

\* 'Load Game & Analyze' onClick (disabled unless engineStatus is 'Ready')
handleLoadPgn ==
    /\ Mounted
    /\ engineStatus = "Ready"
    /\ RoomForRequest
    /\ LET newGame == LoadPgn(CleanPgn(pgn)) IN
       IF ~newGame.ok
       THEN \E message \in LibraryMessages : LoadPgnCatch(message)
       ELSE IF Len(newGame.chess.moves) = 0
       THEN LoadPgnCatch(NoMovesText)
       ELSE /\ pgnError' = ""
            /\ game' = NewChess(StartFen)
            /\ currentGameForEngine' = NewChess(StartFen)
            /\ history' = newGame.chess.moves
            /\ currentMove' = -1
            /\ getEvaluation(StartFen)
    /\ UNCHANGED <<appVars, psVars, extraVars, activeTab, pgn, engineStatus, stockfish, workerStatus,
                   listening, outbox, enginePos, search>>

\* navigateToMove that asks for the evaluation of the position on display
\* before the click
navigateToMoveStaleFen(index) ==
    /\ Mounted
    /\ history # <<>>
    /\ RoomForRequest
    /\ LET newGame == Replay(history, Min(index + 1, Len(history))) IN
       /\ game' = newGame
       /\ currentGameForEngine' = NewChess(Fen(newGame))
       /\ currentMove' = index
       /\ getEvaluation(Fen(game))
    /\ UNCHANGED <<appVars, psVars, extraVars, activeTab, pgn, pgnError, history, engineStatus, stockfish,
                   workerStatus, listening, outbox, enginePos, search>>

\* navigateToMove(index), called from the move list (the buttons exist while
\* a game is loaded, 'Start' for -1 and one per move) and from the arrows
\* of part_002; the loop plays history[0..index], and past the end of the
\* list there is nothing more to play (part_002:526-528)
navigateToMove(index) ==
    /\ Mounted
    /\ history # <<>>
    /\ RoomForRequest
    /\ LET newGame == Replay(history, Min(index + 1, Len(history))) IN
       /\ game' = newGame
       /\ currentGameForEngine' = NewChess(Fen(newGame))
       /\ currentMove' = index
       /\ getEvaluation(Fen(newGame))
    /\ UNCHANGED <<appVars, psVars, extraVars, activeTab, pgn, pgnError, history, engineStatus, stockfish,
                   workerStatus, listening, outbox, enginePos, search>>

\* the loop over the pv without tempGame.undo(): each move is tried in the
\* position the moves before it have led to
RECURSIVE TopEngineMovesNoUndo(_, _, _)
TopEngineMovesNoUndo(moves, n, fen) ==
    IF n = 0 \/ moves = <<>> THEN <<>>
    ELSE IF Head(moves) \in UciMoves /\ Legal(fen, UciToSan(Head(moves)))
         THEN <<UciToSan(Head(moves))>>
              \o TopEngineMovesNoUndo(Tail(moves), n - 1, fen \cup {UciToSan(Head(moves))})
         ELSE TopEngineMovesNoUndo(Tail(moves), n - 1, fen)

\* the loop of onMessage over the pv: each of the first n moves that is
\* legal in the reference position gives its SAN (the move is undone)
RECURSIVE TopEngineMoves(_, _, _)
TopEngineMoves(moves, n, fen) ==
    IF n = 0 \/ moves = <<>> THEN <<>>
    ELSE IF Head(moves) \in UciMoves /\ Legal(fen, UciToSan(Head(moves)))
         THEN <<UciToSan(Head(moves))>> \o TopEngineMoves(Tail(moves), n - 1, fen)
         ELSE TopEngineMoves(Tail(moves), n - 1, fen)

\* onMessage that takes the 'uciok' answer for readiness
onMessageReadyOnUciok(m) ==
    /\ engineStatus' = (IF m.type \in {"readyok", "uciok"} THEN "Ready" ELSE engineStatus)
    /\ inbox' = (IF m.type = "uciok" THEN Append(inbox, Cmd("isready")) ELSE inbox)
    /\ UNCHANGED <<evaluation, topMoves, evalFor, topFor>>

\* const onMessage = (event) => ...
onMessage(m) ==
    IF m.type = "readyok"
    THEN /\ engineStatus' = "Ready"
         /\ UNCHANGED <<inbox, evaluation, topMoves, evalFor, topFor>>
    ELSE IF m.type = "uciok"
    THEN /\ inbox' = Append(inbox, Cmd("isready"))
         /\ UNCHANGED <<engineStatus, evaluation, topMoves, evalFor, topFor>>
    ELSE /\ IF m.type = "info" /\ m.score = "cp"            \* includes('score cp')
            THEN evaluation' = ToFixed2(m.cp) /\ evalFor' = m.for
            ELSE UNCHANGED <<evaluation, evalFor>>
         /\ IF m.type = "info" /\ m.pv # <<>>               \* 'info depth' and ' pv '
            THEN /\ topMoves' = TopEngineMoves(m.pv, Min(TopMovesLimit, Len(m.pv)),
                                               Fen(currentGameForEngine))
                 /\ topFor' = m.for
            ELSE UNCHANGED <<topMoves, topFor>>
         /\ UNCHANGED <<engineStatus, inbox>>

\* the next message of the worker reaches the listener
DeliverMessage ==
    /\ stockfish # 0
    /\ workerStatus[stockfish] = "running"
    /\ stockfish \in listening
    /\ outbox # <<>>
    /\ Head(outbox).type = "uciok" => Len(inbox) < MaxInbox
    /\ outbox' = Tail(outbox)
    /\ onMessage(Head(outbox))
    /\ UNCHANGED <<appVars, psVars, extraVars, activeTab, pgn, pgnError, game, history, currentMove,
                   stockfish, currentGameForEngine, workerStatus, listening,
                   enginePos, search, reqPos>>

\* worker.onerror
WorkerError ==
    /\ Mounted
    /\ engineStatus # "Error"
    /\ engineStatus' = "Error"
    /\ UNCHANGED <<appVars, psVars, extraVars, activeTab, pgn, pgnError, game, history, currentMove,
                   evaluation, topMoves, stockfish, currentGameForEngine,
                   workerVars, ghostVars>>

-----------------------------------------------------------------------------
(* The GameAnalysis of src/unnamed/part_002 where it differs from           *)
(* src/src/App.js: the arrows under the move list, and the handling of the  *)
(* engine's lines.                                                          *)

\* Math.min(5, moves.length)
TopMovesLimit002 == 5

\* the left arrow onClick: goToPreviousMove
goToPreviousMove ==
    /\ Mounted
    /\ history # <<>>
    /\ IF currentMove > -1 THEN navigateToMove(currentMove - 1) ELSE UNCHANGED vars

\* goToNextMove without its test of currentMove
goToNextMoveUnguarded ==
    /\ Mounted
    /\ history # <<>>
    /\ navigateToMove(currentMove + 1)

\* the right arrow onClick: goToNextMove
goToNextMove ==
    /\ Mounted
    /\ history # <<>>
    /\ IF currentMove < Len(history) - 1 THEN navigateToMove(currentMove + 1)
       ELSE UNCHANGED vars

\* const onMessage = (event) => ... of part_002: the pv is read in the else
\* branch of the test for 'score cp'
onMessage002(m) ==
    IF m.type = "readyok"
    THEN /\ engineStatus' = "Ready"
         /\ UNCHANGED <<inbox, evaluation, topMoves, evalFor, topFor>>
    ELSE IF m.type = "uciok"
    THEN /\ inbox' = Append(inbox, Cmd("isready"))
         /\ UNCHANGED <<engineStatus, evaluation, topMoves, evalFor, topFor>>
    ELSE IF m.type = "info" /\ m.score = "cp"               \* includes('score cp')
    THEN /\ evaluation' = ToFixed2(m.cp) /\ evalFor' = m.for
         /\ UNCHANGED <<engineStatus, inbox, topMoves, topFor>>
    ELSE IF m.type = "info" /\ m.pv # <<>>                  \* 'info depth' and ' pv '
    THEN /\ topMoves' = TopEngineMoves(m.pv, Min(TopMovesLimit002, Len(m.pv)),
                                       Fen(currentGameForEngine))
         /\ topFor' = m.for
         /\ UNCHANGED <<engineStatus, inbox, evaluation, evalFor>>
    ELSE UNCHANGED <<engineStatus, inbox, evaluation, topMoves, evalFor, topFor>>

\* the next message of the worker reaches the listener of part_002
DeliverMessage002 ==
    /\ stockfish # 0
    /\ workerStatus[stockfish] = "running"
    /\ stockfish \in listening
    /\ outbox # <<>>
    /\ Head(outbox).type = "uciok" => Len(inbox) < MaxInbox
    /\ outbox' = Tail(outbox)
    /\ onMessage002(Head(outbox))
    /\ UNCHANGED <<appVars, psVars, extraVars, activeTab, pgn, pgnError, game, history, currentMove,
                   stockfish, currentGameForEngine, workerStatus, listening,
                   enginePos, search, reqPos>>

-----------------------------------------------------------------------------
(* The GameAnalysis of src/unnamed/part_003: a listener per evaluation      *)
(* request over one shared messageHistory, the engine set to MultiPV 3, and *)
(* the commentary asked of the Gemini API. The engine's lines carry their   *)
(* depth and their multipv index.                                           *)

MaxListeners == 2          \* request listeners attached to the worker
MaxCommentaryCalls == 1    \* getAiCommentary requests in flight
MaxAiCalls == 2            \* the same where getAiCommentary is called on its own
SearchDepths == 2          \* depths of one search

\* 'setoption name MultiPV value 3'
MultiPV == 3

\* finalTopMoves.slice(0,3)
TopMovesLimit003 == 3

\* lastMoveSan is null
NoMove == "null"

StartingText == "This is the starting position. Load a PGN and make a move to begin analysis."
NavigateText == "This is the starting position. Make a move or navigate to see commentary."
CouldNotText == "Could not generate commentary for this move."
AiErrorText == "An error occurred while generating commentary."

\* result.candidates[0].content.parts[0].text of the answer to a prompt
GeneratedText(lastMoveSan) ==
    CASE lastMoveSan = "e4" -> "text on e4" [] lastMoveSan = "Nf3" -> "text on Nf3"
      [] lastMoveSan = "e5" -> "text on e5" [] lastMoveSan = "Nc6" -> "text on Nc6"

\* the commentary state as a value, and as the next state
CommentaryState ==
    [commentary |-> commentary, generating |-> isGeneratingCommentary,
     calls |-> commentaryCalls]

SetCommentaryState(cs) ==
    /\ commentary' = cs.commentary
    /\ isGeneratingCommentary' = cs.generating
    /\ commentaryCalls' = cs.calls

\* getAiCommentary up to its first await: the early return, or the two
\* setters and the fetch
getAiCommentary(cs, lastMoveSan) ==
    IF lastMoveSan = NoMove
    THEN [cs EXCEPT !.commentary = StartingText]
    ELSE [cs EXCEPT !.generating = TRUE, !.commentary = "",
                    !.calls = Append(@, lastMoveSan)]

\* how a request ends: candidates with a text part, an answer without
\* them, or a rejected fetch or a body that is not JSON
AiOutcomes == {"text", "empty", "throws"}

RemoveAt(s, i) == SubSeq(s, 1, i - 1) \o SubSeq(s, i + 1, Len(s))

\* the rest of getAiCommentary without its finally block
CommentarySettlesNoFinally(i, outcome) ==
    /\ i \in 1..Len(commentaryCalls)
    /\ commentary' = (CASE outcome = "text" -> GeneratedText(commentaryCalls[i])
                        [] outcome = "empty" -> CouldNotText
                        [] outcome = "throws" -> AiErrorText)
    /\ isGeneratingCommentary' = (IF outcome = "throws" THEN isGeneratingCommentary ELSE FALSE)
    /\ commentaryCalls' = RemoveAt(commentaryCalls, i)
    /\ UNCHANGED <<appVars, gaVars, psVars, listeners, messageHistory, moveThrows,
                   cleanResult>>

\* the rest of getAiCommentary once its request has settled: try, catch
\* and finally
CommentarySettles(i, outcome) ==
    /\ i \in 1..Len(commentaryCalls)
    /\ commentary' = (CASE outcome = "text" -> GeneratedText(commentaryCalls[i])
                        [] outcome = "empty" -> CouldNotText
                        [] outcome = "throws" -> AiErrorText)
    /\ isGeneratingCommentary' = FALSE
    /\ commentaryCalls' = RemoveAt(commentaryCalls, i)
    /\ UNCHANGED <<appVars, gaVars, psVars, listeners, messageHistory, moveThrows,
                   cleanResult>>

\* a call of getAiCommentary
AiCall(lastMoveSan) ==
    /\ lastMoveSan # NoMove => Len(commentaryCalls) < MaxAiCalls
    /\ SetCommentaryState(getAiCommentary(CommentaryState, lastMoveSan))
    /\ UNCHANGED <<appVars, gaVars, psVars, listeners, messageHistory, moveThrows,
                   cleanResult>>

\* the legal moves of a position, in the engine's order
LegalUci(fen) == SelectSeq(UciOrder, LAMBDA u : Legal(fen, UciToSan(u)))

\* the lines the engine gives per depth
LinesPerDepth(fen) == Min(MultiPV, Len(LegalUci(fen)))

Msg003(type) ==
    [type |-> type, depth |-> 0, multipv |-> 0, score |-> "none", cp |-> 0,
     pv |-> <<>>, for |-> NoFen]

\* 'info depth d multipv k score cp N pv ...', with 'score mate 1' where
\* the move leaves no reply
Info003(fen, d, k) ==
    LET first == LegalUci(fen)[k]
        pv == <<first>> \o PvLine(fen \cup {UciToSan(first)}, PvLength - 1)
    IN IF Len(pv) = 1
       THEN [type |-> "info", depth |-> d, multipv |-> k, score |-> "mate", cp |-> 1,
             pv |-> pv, for |-> fen]
       ELSE [type |-> "info", depth |-> d, multipv |-> k, score |-> "cp",
             cp |-> ScoreCp(fen, d) - 10 * (k - 1), pv |-> pv, for |-> fen]

\* 'info depth 0 score mate 0' where the side to move has no move
NoMoveLine(fen) == [Msg003("info") EXCEPT !.score = "mate", !.for = fen]

\* the worker reads the next command
EngineReceive003 ==
    /\ stockfish # 0
    /\ workerStatus[stockfish] = "running"
    /\ ~search.active
    /\ inbox # <<>>
    /\ inbox' = Tail(inbox)
    /\ LET c == Head(inbox) IN
       CASE c.cmd = "uci" ->
              /\ Len(outbox) + 2 <= MaxOutbox
              /\ outbox' = outbox \o <<Msg003("id"), Msg003("uciok")>>
              /\ UNCHANGED <<enginePos, search>>
         [] c.cmd = "setoption" ->
              UNCHANGED <<outbox, enginePos, search>>
         [] c.cmd = "isready" ->
              /\ Len(outbox) < MaxOutbox
              /\ outbox' = Append(outbox, Msg003("readyok"))
              /\ UNCHANGED <<enginePos, search>>
         [] c.cmd = "position" ->
              /\ enginePos' = c.fen
              /\ UNCHANGED <<outbox, search>>
         [] c.cmd = "go" ->
              /\ search' = [active |-> TRUE, fen |-> enginePos, line |-> 0]
              /\ UNCHANGED <<outbox, enginePos>>
    /\ UNCHANGED <<appVars, psVars, extraVars, activeTab, gaState, workerStatus, listening,
                   ghostVars>>

\* the running search posts its next line: per depth one line per multipv
\* index, then 'bestmove'
EngineEmit003 ==
    /\ stockfish # 0
    /\ workerStatus[stockfish] = "running"
    /\ search.active
    /\ Len(outbox) < MaxOutbox
    /\ LET n == LinesPerDepth(search.fen)
           total == IF n = 0 THEN 1 ELSE SearchDepths * n
       IN IF search.line < total
          THEN /\ outbox' = Append(outbox,
                      IF n = 0 THEN NoMoveLine(search.fen)
                      ELSE Info003(search.fen, (search.line \div n) + 1,
                                   (search.line % n) + 1))
               /\ search' = [search EXCEPT !.line = @ + 1]
          ELSE /\ outbox' = Append(outbox, [Msg003("bestmove") EXCEPT !.for = search.fen])
               /\ search' = Idle
    /\ UNCHANGED <<appVars, psVars, extraVars, activeTab, gaState, workerStatus, listening,
                   inbox, enginePos, ghostVars>>

\* `M${scoreValue}`
MateText(n) ==
    LET abs == IF n < 0 THEN 0 - n ELSE n
    IN [kind |-> "mate", neg |-> n < 0, whole |-> abs, frac |-> 0]

\* an index of finalTopMoves nothing was assigned to
Hole == [san |-> "undefined", score |-> EvalEmpty]

\* the three matches of a line: multipv, score and pv
Parsed(line) ==
    /\ line.type = "info" /\ line.multipv > 0
    /\ line.score \in {"cp", "mate"}
    /\ line.pv # <<>>

\* tempGame.move(firstMove, { sloppy: true }) does not play the move
Refused(line, fen) ==
    ~(line.pv[1] \in UciMoves /\ Legal(fen, UciToSan(line.pv[1])))

\* messageHistory.current.forEach(...): finalTopMoves[pvIndex] is assigned
\* for each parsed line whose first move is played, the later line last
RECURSIVE FinalTopMoves(_, _, _)
FinalTopMoves(lines, fen, final) ==
    IF lines = <<>> THEN final
    ELSE IF Parsed(Head(lines)) /\ ~Refused(Head(lines), fen)
    THEN FinalTopMoves(Tail(lines), fen,
             [final EXCEPT ![Head(lines).multipv] =
                 [san |-> UciToSan(Head(lines).pv[1]),
                  score |-> IF Head(lines).score = "cp" THEN ToFixed2(Head(lines).cp)
                            ELSE MateText(Head(lines).cp)]])
    ELSE FinalTopMoves(Tail(lines), fen, final)

\* finalTopMoves.length
ArrayLength(final) ==
    IF \A k \in DOMAIN final : final[k] = Hole THEN 0
    ELSE CHOOSE k \in DOMAIN final :
            final[k] # Hole /\ \A j \in DOMAIN final : final[j] # Hole => j <= k

\* the onMessage closure of a request (its fen and lastMoveSan in l) on a
\* message m, from the state st the listeners before it have left: the
\* push, and on 'bestmove' the reading of messageHistory, the setters and
\* the removal of the listener. A move that throws and a hole at index 0
\* end the closure before its setters and its removal.
onMessage003(l, m, st) ==
    LET lines == Append(st.hist, m)
        stays == [st EXCEPT !.hist = lines, !.kept = Append(@, l)]
        final == FinalTopMoves(lines, l.fen, [k \in 1..MultiPV |-> Hole])
        n == ArrayLength(final)
    IN IF m.type # "bestmove" THEN stays
       ELSE IF moveThrows /\ \E i \in 1..Len(lines) :
                                Parsed(lines[i]) /\ Refused(lines[i], l.fen)
       THEN stays
       ELSE IF n > 0 /\ final[1] = Hole THEN stays
       ELSE IF n = 0 THEN [st EXCEPT !.hist = lines]
       ELSE [st EXCEPT !.hist = lines,
                       !.evaluation = final[1].score,
                       !.topMoves = [k \in 1..Min(TopMovesLimit003, n) |-> final[k]],
                       !.cs = IF l.last # NoMove THEN getAiCommentary(@, l.last)
                              ELSE [@ EXCEPT !.commentary = NavigateText]]

\* the dispatch of a message to the request listeners, in the order they
\* were attached
RECURSIVE RunListeners(_, _, _)
RunListeners(ls, m, st) ==
    IF ls = <<>> THEN st
    ELSE RunListeners(Tail(ls), m, onMessage003(Head(ls), m, st))

\* const onUciOk = (event) => ... while it is attached
onUciOk(m) ==
    IF stockfish \in listening /\ m.type = "uciok"
    THEN /\ inbox' = inbox \o <<Cmd("setoption"), Cmd("isready")>>
         /\ UNCHANGED <<engineStatus, listening>>
    ELSE IF stockfish \in listening /\ m.type = "readyok"
    THEN /\ engineStatus' = "Ready"
         /\ listening' = listening \ {stockfish}
         /\ UNCHANGED inbox
    ELSE UNCHANGED <<inbox, engineStatus, listening>>

\* the next message of the worker reaches the listeners attached to it
DeliverMessage003 ==
    /\ stockfish # 0
    /\ workerStatus[stockfish] = "running"
    /\ outbox # <<>>
    /\ (Head(outbox).type = "uciok" /\ stockfish \in listening) => Len(inbox) + 2 <= MaxInbox
    /\ outbox' = Tail(outbox)
    /\ onUciOk(Head(outbox))
    /\ LET st == RunListeners(listeners, Head(outbox),
                     [hist |-> messageHistory, kept |-> <<>>, evaluation |-> evaluation,
                      topMoves |-> topMoves, cs |-> CommentaryState])
       IN /\ Len(st.cs.calls) <= MaxCommentaryCalls
          /\ messageHistory' = st.hist
          /\ listeners' = st.kept
          /\ evaluation' = st.evaluation
          /\ topMoves' = st.topMoves
          /\ SetCommentaryState(st.cs)
    /\ UNCHANGED <<appVars, psVars, activeTab, pgn, pgnError, game, history, currentMove,
                   stockfish, currentGameForEngine, workerStatus, enginePos, search,
                   ghostVars, moveThrows, cleanResult>>

\* const getEvaluation = useCallback((fen, lastMoveSan) => ...
getEvaluation003(fen, lastMoveSan) ==
    IF engineStatus # "Ready" \/ stockfish = 0
    THEN UNCHANGED <<evaluation, topMoves, commentary, listeners, messageHistory, inbox>>
    ELSE /\ evaluation' = EvalPending
         /\ topMoves' = <<>>
         /\ commentary' = ""
         /\ listeners' = Append(listeners, [fen |-> fen, last |-> lastMoveSan])
         /\ messageHistory' = <<>>
         /\ inbox' = inbox \o <<PositionCmd(fen), Cmd("go")>>

\* room for one more request: its two commands and its listener
RoomForRequest003 ==
    engineStatus = "Ready" => Len(inbox) + 2 <= MaxInbox /\ Len(listeners) < MaxListeners

NoMovesText003 == "PGN loaded, but no moves found."
FallbackText003 == "Error loading PGN."

\* the catch block of handleLoadPgn
LoadPgnCatch003(message) ==
    /\ pgnError' = (IF message = "" THEN FallbackText003 ELSE message)
    /\ game' = NewChess(StartFen)
    /\ history' = <<>>
    /\ currentMove' = -1
    /\ evaluation' = EvalEmpty
    /\ topMoves' = <<>>
    /\ commentary' = ""
    /\ UNCHANGED <<listeners, messageHistory, inbox>>

\* 'Load Game & Analyze' onClick (disabled unless engineStatus is 'Ready')
handleLoadPgn003 ==
    /\ Mounted
    /\ engineStatus = "Ready"
    /\ RoomForRequest003
    /\ LET newGame == LoadPgn(CleanPgn(pgn)) IN
       IF ~newGame.ok
       THEN \E message \in LibraryMessages : LoadPgnCatch003(message)
       ELSE IF Len(newGame.chess.moves) = 0
       THEN LoadPgnCatch003(NoMovesText003)
       ELSE /\ pgnError' = ""
            /\ game' = NewChess(StartFen)
            /\ history' = newGame.chess.moves
            /\ currentMove' = -1
            /\ getEvaluation003(StartFen, NoMove)
    /\ UNCHANGED <<appVars, psVars, activeTab, pgn, engineStatus, stockfish,
                   currentGameForEngine, workerStatus, listening, outbox, enginePos,
                   search, ghostVars, isGeneratingCommentary, commentaryCalls, moveThrows,
                   cleanResult>>

\* navigateToMove(index): the loop plays history[0..index] where there is
\* such a move, and lastMoveSan is the move at index
navigateToMove003(index) ==
    /\ Mounted
    /\ history # <<>>
    /\ RoomForRequest003
    /\ LET tempGame == Replay(history, Min(index + 1, Len(history)))
           lastMoveSan == IF index \in 0..(Len(history) - 1) THEN history[index + 1]
                          ELSE NoMove
       IN /\ game' = tempGame
          /\ currentMove' = index
          /\ getEvaluation003(Fen(tempGame), lastMoveSan)
    /\ UNCHANGED <<appVars, psVars, activeTab, pgn, pgnError, history, engineStatus,
                   stockfish, currentGameForEngine, workerStatus, listening, outbox,
                   enginePos, search, ghostVars, isGeneratingCommentary, commentaryCalls,
                   moveThrows, cleanResult>>

\* the left arrow onClick (disabled while currentMove <= -1)
goToPreviousMove003 ==
    /\ currentMove > -1
    /\ navigateToMove003(currentMove - 1)

\* the right arrow onClick (disabled while currentMove >= history.length - 1)
goToNextMove003 ==
    /\ currentMove < Len(history) - 1
    /\ navigateToMove003(currentMove + 1)

-----------------------------------------------------------------------------
(* PlayerStats and fetchPlayerAnalysis (src/src/App.js:126-220, 368-379).  *)
(* Times are milliseconds, as Date values are. A timestamp written by       *)
(* JSON.stringify (an ISO string with milliseconds) and read back by        *)
(* new Date(timestamp) is the same number of milliseconds.                  *)

\* 24 * 60 * 60 * 1000
CacheTtlMs == 24 * 60 * 60 * 1000

MaxTicks == 2        \* times the clock advances
MaxCalls == 3        \* fetchPlayerAnalysis calls that go to the network

\* how far the clock may advance in one step
TickSteps == {1, CacheTtlMs - 1}

\* FRIENDS[0].username and FRIENDS[1].username
Users == {"realulysse", "poulet_tao"}

\* the stats JSON chess.com may serve
StatsValues == {"stats1", "stats2"}

NullData == [user |-> "null", stats |-> "null"]
Result(user, stats) == [user |-> user, stats |-> stats]

\* localStorage.getItem(cacheKey) is null
NoEntry == [present |-> FALSE, data |-> NullData, timestamp |-> 0]
\* JSON.stringify({ data: result, timestamp: new Date() })
Entry(data, time) == [present |-> TRUE, data |-> data, timestamp |-> time]

\* the 24-hour test that also accepts an entry exactly 24 hours old
isCacheValidInclusive(entry, time) == (time - entry.timestamp) <= CacheTtlMs

\* const isCacheValid = (new Date() - new Date(timestamp)) < 24 * 60 * 60 * 1000
isCacheValid(entry, time) == (time - entry.timestamp) < CacheTtlMs

\* fetchPlayerAnalysis answers from the cache
CacheHit(user) == cache[user].present /\ isCacheValid(cache[user], now)

\* the .then of the PlayerStats effect
ThenSetData(data) ==
    /\ playerData' = data
    /\ psLoading' = FALSE

\* localStorage.setItem(cacheKey, JSON.stringify({ data: result, timestamp: new Date() }))
StoreResult(c, data) ==
    cache' = [cache EXCEPT ![c.user] = Entry(data, now)]

\* the two requests started after getEcoData: stats and archives
StartStats(c) == [c EXCEPT !.phase = "stats"]

\* the body of the PlayerStats effect: setLoading(true) and
\* fetchPlayerAnalysis(user) up to its first await that waits for the
\* network (a cache hit, or a failed ECO promise, resolves at once and the
\* .then runs before any other event)
FetchEffect(user) ==
    IF CacheHit(user)
    THEN /\ ThenSetData(cache[user].data)
         /\ UNCHANGED <<calls, nCalls, netRequests, ecoDataPromise>>
    ELSE /\ nCalls < MaxCalls
         /\ nCalls' = nCalls + 1
         /\ LET c == [id |-> nCalls + 1, user |-> user, phase |-> "eco", stats |-> "null"] IN
            CASE ecoDataPromise = "rejected" ->
                   /\ ThenSetData(NullData)
                   /\ UNCHANGED <<calls, netRequests, ecoDataPromise>>
              [] ecoDataPromise = "pending" ->
                   /\ calls' = calls \cup {c}
                   /\ psLoading' = TRUE
                   /\ UNCHANGED <<playerData, netRequests, ecoDataPromise>>
              [] ecoDataPromise = "fulfilled" \/ (ecoDataPromise = "null" /\ ecoStored) ->
                   /\ calls' = calls \cup {StartStats(c)}
                   /\ netRequests' = netRequests + 2
                   /\ psLoading' = TRUE
                   /\ UNCHANGED <<playerData, ecoDataPromise>>
              [] OTHER ->
                   /\ calls' = calls \cup {c}
                   /\ ecoDataPromise' = "pending"
                   /\ netRequests' = netRequests + 1
                   /\ psLoading' = TRUE
                   /\ UNCHANGED playerData

\* the mount of PlayerStats: its effect runs for FRIENDS[0]
PlayerStatsMount ==
    /\ psPc = "mount"
    /\ psPc' = "mounted"
    /\ FetchEffect(selectedPlayer)
    /\ UNCHANGED <<now, ticks, cache, ecoStored, selectedPlayer>>

\* the select's onChange: setSelectedPlayer(user), then the effect
SelectPlayer(user) ==
    /\ psPc = "mounted"
    /\ user # selectedPlayer
    /\ selectedPlayer' = user
    /\ FetchEffect(user)
    /\ UNCHANGED <<now, ticks, cache, ecoStored, psPc>>

\* the ECO table request settles; every call waiting on the shared promise
\* goes on (to its stats and archives requests) or fails
EcoSettles(ok) ==
    /\ ecoDataPromise = "pending"
    /\ LET waiting == {c \in calls : c.phase = "eco"} IN
       IF ok
       THEN /\ ecoDataPromise' = "fulfilled"
            /\ ecoStored' = TRUE
            /\ calls' = (calls \ waiting) \cup {StartStats(c) : c \in waiting}
            /\ netRequests' = netRequests + 2 * Cardinality(waiting)
            /\ UNCHANGED <<playerData, psLoading>>
       ELSE /\ ecoDataPromise' = "rejected"
            /\ calls' = calls \ waiting
            /\ IF waiting # {} THEN ThenSetData(NullData) ELSE UNCHANGED <<playerData, psLoading>>
            /\ UNCHANGED <<ecoStored, netRequests>>
    /\ UNCHANGED <<now, ticks, cache, nCalls, selectedPlayer, psPc>>

\* a failure of the stats and archives requests that writes the null result
\* to the cache
StatsFailStoresNull(c) ==
    /\ c \in calls /\ c.phase = "stats"
    /\ calls' = calls \ {c}
    /\ StoreResult(c, NullData)
    /\ ThenSetData(NullData)
    /\ UNCHANGED <<now, ticks, ecoStored, ecoDataPromise, nCalls, netRequests,
                   selectedPlayer, psPc>>

\* the stats and archives requests of call c fail: one rejects or has a
\* status that is not ok; the catch returns null
StatsFail(c) ==
    /\ c \in calls /\ c.phase = "stats"
    /\ calls' = calls \ {c}
    /\ ThenSetData(NullData)
    /\ UNCHANGED <<now, ticks, cache, ecoStored, ecoDataPromise, nCalls, netRequests,
                   selectedPlayer, psPc>>

\* the end of the try block for call c: the result is stored and returned
Complete(c, stats) ==
    /\ calls' = calls \ {c}
    /\ StoreResult(c, Result(c.user, stats))
    /\ ThenSetData(Result(c.user, stats))
    /\ UNCHANGED netRequests

\* the stats and archives requests of call c succeed; with months, one
\* monthly archive of the last four months is listed and is requested,
\* without, none is and the call is complete
StatsSucceed(c, stats, months) ==
    /\ c \in calls /\ c.phase = "stats"
    /\ IF months
       THEN /\ calls' = (calls \ {c}) \cup {[c EXCEPT !.phase = "games", !.stats = stats]}
            /\ netRequests' = netRequests + 1
            /\ UNCHANGED <<cache, playerData, psLoading>>
       ELSE Complete(c, stats)
    /\ UNCHANGED <<now, ticks, ecoStored, ecoDataPromise, nCalls, selectedPlayer, psPc>>

\* the monthly archive request of call c succeeds
GamesSucceed(c) ==
    /\ c \in calls /\ c.phase = "games"
    /\ Complete(c, c.stats)
    /\ UNCHANGED <<now, ticks, ecoStored, ecoDataPromise, nCalls, selectedPlayer, psPc>>

\* the monthly archive request of call c rejects or does not parse
GamesFail(c) ==
    /\ c \in calls /\ c.phase = "games"
    /\ calls' = calls \ {c}
    /\ ThenSetData(NullData)
    /\ UNCHANGED <<now, ticks, cache, ecoStored, ecoDataPromise, nCalls, netRequests,
                   selectedPlayer, psPc>>

\* time passes
Tick(d) ==
    /\ ticks < MaxTicks
    /\ ticks' = ticks + 1
    /\ now' = now + d
    /\ UNCHANGED <<cache, ecoStored, ecoDataPromise, calls, nCalls, netRequests,
                   selectedPlayer, playerData, psLoading, psPc>>

PlayerInit ==
    /\ now = 0
    /\ ticks = 0
    /\ cache = [u \in Users |-> NoEntry]
    /\ ecoStored = FALSE
    /\ ecoDataPromise = "null"
    /\ calls = {}
    /\ nCalls = 0
    /\ netRequests = 0
    /\ selectedPlayer = "realulysse"
    /\ playerData = NullData
    /\ psLoading = TRUE
    /\ psPc = "mount"

-----------------------------------------------------------------------------
(* The specifications.                                                      *)

\* GameAnalysis is reached once loadAllData has finished without the
\* banner; the state below is the one it leaves with two empty payloads
AppLoaded ==
    /\ loading = FALSE
    /\ error = NoError
    /\ currentRatings = <<>>
    /\ ratingHistory = <<>>
    /\ pcLoad = "done"
    /\ ratingsData = EmptyList
    /\ historyData = EmptyList
    /\ requests = <<RatingsEndpoint, HistoryEndpoint>>
    /\ responses = << [rejects |-> TRUE, ok |-> FALSE, parses |-> FALSE, body |-> JNull],
                      [rejects |-> TRUE, ok |-> FALSE, parses |-> FALSE, body |-> JNull] >>
    /\ theme = "light"
    /\ storedTheme = "light"
    /\ rootClasses = {"light"}

\* no GameAnalysis is mounted
GAUnmounted ==
    /\ activeTab = "Dashboard"
    /\ pgn = <<>>
    /\ pgnError = ""
    /\ game = NewChess(StartFen)
    /\ history = <<>>
    /\ currentMove = -1
    /\ evaluation = EvalEmpty
    /\ topMoves = <<>>
    /\ engineStatus = "Loading..."
    /\ stockfish = 0
    /\ currentGameForEngine = NewChess(StartFen)
    /\ workerStatus = [w \in 1..MaxWorkers |-> "none"]
    /\ listening = {}
    /\ inbox = <<>>
    /\ outbox = <<>>
    /\ enginePos = StartFen
    /\ search = Idle
    /\ reqPos = NoFen
    /\ evalFor = NoFen
    /\ topFor = NoFen

\* the cleanedPgn of a text before handleLoadPgn has computed it
NotCleaned == <<"-">>

\* the text handleLoadPgn is given, not cleaned yet
Pasted(text) == [text |-> text, cleaned |-> NotCleaned]

\* the part_003 component is not in use
Part003Unused ==
    /\ listeners = <<>>
    /\ messageHistory = <<>>
    /\ commentary = ""
    /\ isGeneratingCommentary = FALSE
    /\ commentaryCalls = <<>>
    /\ moveThrows = FALSE

ExtraInit == Part003Unused /\ cleanResult = Pasted(<<>>)

Init == AppLoaded /\ GAUnmounted /\ PlayerInit /\ ExtraInit

Next ==
    \/ \E name \in Tabs : SetActiveTab(name)
    \/ \E text \in PgnInputs : SetPgn(text)
    \/ handleLoadPgn
    \/ \E index \in -1..(Len(history) - 1) : navigateToMove(index)
    \/ DeliverMessage
    \/ WorkerError
    \/ EngineReceive
    \/ EngineEmit

Spec == Init /\ [][Next]_vars

\* the GameAnalysis of part_002: a click on a move of the list, the two
\* arrows, and its own onMessage
Next002 ==
    \/ \E name \in Tabs : SetActiveTab(name)
    \/ \E text \in PgnInputs : SetPgn(text)
    \/ handleLoadPgn
    \/ \E index \in 0..(Len(history) - 1) : navigateToMove(index)
    \/ goToPreviousMove
    \/ goToNextMove
    \/ DeliverMessage002
    \/ WorkerError
    \/ EngineReceive
    \/ EngineEmit

Spec002 == Init /\ [][Next002]_vars

\* the tokens of a pasted text and the texts of up to MaxPgnLen tokens
MaxPgnLen == 5

PgnTokens == {"[T]", "[U]", "{", "}", "(", ")", "$1", "e4", "e5"}

PgnTexts == UNION {[1..n -> PgnTokens] : n \in 0..MaxPgnLen}

\* handleLoadPgn steps 1-4 on the pasted text
CleanStep ==
    /\ cleanResult.cleaned = NotCleaned
    /\ cleanResult' = [cleanResult EXCEPT !.cleaned = CleanPgn(cleanResult.text)]
    /\ UNCHANGED <<appVars, gaVars, psVars, ga3Vars>>

\* any text of the bound is pasted
CleanInit ==
    /\ AppLoaded /\ GAUnmounted /\ PlayerInit /\ Part003Unused
    /\ \E text \in PgnTexts : cleanResult = Pasted(text)

\* the cleaning of handleLoadPgn on every text of the bound
CleanSpec == CleanInit /\ [][CleanStep]_vars

\* what the user may paste into the GameAnalysis of part_003
PgnInputs003 ==
    { <<"e4", "{", "c", "}", "e5", "Nf3">>,
      <<"e4", "e4">> }

\* the GameAnalysis of part_003 just mounted: its initial values and its
\* init effect up to worker.postMessage('uci')
Mounted003 ==
    /\ activeTab = "Game Analysis"
    /\ pgn = <<>>
    /\ pgnError = ""
    /\ game = NewChess(StartFen)
    /\ history = <<>>
    /\ currentMove = -1
    /\ evaluation = EvalEmpty
    /\ topMoves = <<>>
    /\ engineStatus = "Loading..."
    /\ stockfish = 1
    /\ currentGameForEngine = NewChess(StartFen)
    /\ workerStatus = [w \in 1..MaxWorkers |-> IF w = 1 THEN "running" ELSE "none"]
    /\ listening = {1}
    /\ inbox = <<Cmd("uci")>>
    /\ outbox = <<>>
    /\ enginePos = StartFen
    /\ search = Idle
    /\ reqPos = NoFen
    /\ evalFor = NoFen
    /\ topFor = NoFen

\* the chess library either returns null for a move it does not play or
\* throws; which of them is fixed by the installed version
Init003 ==
    /\ AppLoaded /\ Mounted003 /\ PlayerInit
    /\ listeners = <<>>
    /\ messageHistory = <<>>
    /\ commentary = ""
    /\ isGeneratingCommentary = FALSE
    /\ commentaryCalls = <<>>
    /\ moveThrows \in BOOLEAN
    /\ cleanResult = Pasted(<<>>)

Next003 ==
    \/ \E text \in PgnInputs003 : SetPgn(text)
    \/ handleLoadPgn003
    \/ \E index \in 0..(Len(history) - 1) : navigateToMove003(index)
    \/ goToPreviousMove003
    \/ goToNextMove003
    \/ DeliverMessage003
    \/ WorkerError
    \/ EngineReceive003
    \/ EngineEmit003
    \/ \E i \in 1..MaxCommentaryCalls, outcome \in AiOutcomes : CommentarySettles(i, outcome)

Spec003 == Init003 /\ [][Next003]_vars

\* getAiCommentary called with every lastMoveSan, and its requests settling
CommentaryNext ==
    \/ \E lastMoveSan \in SanMoves \cup {NoMove} : AiCall(lastMoveSan)
    \/ \E i \in 1..MaxAiCalls, outcome \in AiOutcomes : CommentarySettles(i, outcome)

CommentarySpec == Init003 /\ [][CommentaryNext]_vars

\* App: the mount, the data load, the theme button, the tabs and a reload
\* of the page; the engine worker does not answer
AppNext ==
    \/ AppMount /\ UNCHANGED <<gaVars, psVars, extraVars>>
    \/ RatingsSettled /\ UNCHANGED <<themeVars, gaVars, psVars, extraVars>>
    \/ HistorySettled /\ RenderLoaded /\ UNCHANGED <<themeVars, psVars, extraVars>>
    \/ SwitchTheme /\ UNCHANGED <<gaVars, psVars, extraVars>>
    \/ \E name \in Tabs : SetActiveTab(name)
    \/ Reload

AppSpecInit == AppInit /\ ThemeInit /\ GAUnmounted /\ PlayerInit /\ ExtraInit

AppSpec == AppSpecInit /\ [][AppNext]_vars

\* PlayerStats alone
PlayerNext ==
    \/ PlayerStatsMount /\ UNCHANGED <<appVars, gaVars, extraVars>>
    \/ \E user \in Users : SelectPlayer(user) /\ UNCHANGED <<appVars, gaVars, extraVars>>
    \/ \E ok \in BOOLEAN : EcoSettles(ok) /\ UNCHANGED <<appVars, gaVars, extraVars>>
    \/ \E c \in calls : StatsFail(c) /\ UNCHANGED <<appVars, gaVars, extraVars>>
    \/ \E c \in calls, stats \in StatsValues, months \in BOOLEAN :
          StatsSucceed(c, stats, months) /\ UNCHANGED <<appVars, gaVars, extraVars>>
    \/ \E c \in calls : GamesSucceed(c) /\ UNCHANGED <<appVars, gaVars, extraVars>>
    \/ \E c \in calls : GamesFail(c) /\ UNCHANGED <<appVars, gaVars, extraVars>>
    \/ \E d \in TickSteps : Tick(d) /\ UNCHANGED <<appVars, gaVars, extraVars>>

PlayerSpecInit == AppLoaded /\ GAUnmounted /\ PlayerInit /\ ExtraInit

PlayerSpec == PlayerSpecInit /\ [][PlayerNext]_vars

-----------------------------------------------------------------------------
(* Properties of fetchData and loadAllData, checked under AppSpec.          *)

\* the request did not deliver a JSON body: it rejected, its status was not
\* ok, or its body did not parse
Failed(o) == o.rejects \/ ~o.ok \/ ~o.parses

\* the backend could not be reached: the request rejected or its status was
\* not ok
Unreachable(o) == o.rejects \/ ~o.ok

\* C1: fetchData never rejects; a request that rejects, has a status that is
\* not ok or a body that is not JSON gives the empty list, any other request
\* gives its parsed body unchanged. Stated on what loadAllData receives from
\* its two awaits.
C1_FetchDataTotal ==
    /\ pcLoad = "done" => Len(responses) = 2
    /\ Len(responses) >= 1 =>
         ratingsData = IF Failed(responses[1]) THEN EmptyList ELSE responses[1].body
    /\ Len(responses) >= 2 =>
         historyData = IF Failed(responses[2]) THEN EmptyList ELSE responses[2].body

C1_Witness ==
    /\ Len(responses) = 2
    /\ ~responses[1].rejects /\ ~responses[1].ok /\ responses[1].parses
    /\ responses[1].body = JArray(<<RowUlysse>>)
    /\ ratingsData = EmptyList
    /\ ~Failed(responses[2])
    /\ historyData = JObject

\* C6: when a ratings or history request rejects or returns a status that
\* is not ok, loadAllData ends with the error banner set.
C6_BannerWhenUnreachable ==
    (pcLoad = "done" /\ \E i \in 1..Len(responses) : Unreachable(responses[i]))
        => error = BannerText

\* C7: each backend endpoint is requested exactly once, the history request
\* only after the current-ratings request has settled, and no request is
\* issued again, whatever its outcome.
C7_NoRetries ==
    /\ \A i, j \in 1..Len(requests) : i # j => requests[i] # requests[j]
    /\ (\E i \in 1..Len(requests) : requests[i] = HistoryEndpoint) => Len(responses) >= 1
    /\ Len(responses) <= Len(requests)
    /\ pcLoad # "mount" => requests[1] = RatingsEndpoint
    /\ pcLoad = "done" => requests = <<RatingsEndpoint, HistoryEndpoint>>

C7_Witness ==
    /\ pcLoad = "done"
    /\ responses[1].rejects
    /\ ~responses[2].ok
    /\ Len(requests) = 2

\* C8: if either payload is not an array the banner is set, currentRatings
\* and ratingHistory keep their previous (initial, empty) values, and
\* loading is false.
C8_NoPartialUpdate ==
    (pcLoad = "done" /\ (~IsArray(ratingsData) \/ ~IsArray(historyData)))
        => /\ error = BannerText
           /\ currentRatings = <<>>
           /\ ratingHistory = <<>>
           /\ loading = FALSE

C8_Witness ==
    /\ pcLoad = "done"
    /\ ratingsData = JArray(<<RowUlysse, RowGuest>>)
    /\ historyData = JObject
    /\ error = BannerText

\* C9: after a load with two array payloads, currentRatings has one row per
\* fetched record, in the fetched order, every fetched field unchanged and
\* exactly the three change fields added; ratingHistory is the fetched
\* history list.
C9_TableMatchesJson ==
    (/\ pcLoad = "done"
     /\ \A i \in 1..2 : ~Failed(responses[i]) /\ IsArray(responses[i].body))
        => LET fetched == responses[1].body.items IN
           /\ Len(currentRatings) = Len(fetched)
           /\ \A i \in 1..Len(fetched) :
                /\ DOMAIN currentRatings[i] = (DOMAIN fetched[i]) \cup ChangeFields
                /\ \A f \in DOMAIN fetched[i] : currentRatings[i][f] = fetched[i][f]
           /\ ratingHistory = responses[2].body.items
           /\ error = NoError

C9_Witness ==
    /\ pcLoad = "done"
    /\ ~Failed(responses[1]) /\ responses[1].body = JArray(<<RowGuest, RowUlysse>>)
    /\ ~Failed(responses[2]) /\ responses[2].body = JArray(<<RowUlysse>>)
    /\ Len(currentRatings) = 2
    /\ currentRatings[2].rapid_change = 29

\* C11: toggleTheme maps 'light' to 'dark' and 'dark' to 'light', so two
\* toggles restore the theme; once the effect of useTheme has run,
\* localStorage['theme'] is the current theme and the document root has the
\* class of the current theme and not the class of the other theme; a page
\* that mounts later starts from the stored theme ('light' if none is).
C11_ThemePersisted ==
    /\ [](\A t \in Themes : /\ toggleTheme(t) \in Themes \ {t}
                              /\ toggleTheme(toggleTheme(t)) = t)
    /\ [][SwitchTheme => theme' = (IF theme = "light" THEN "dark" ELSE "light")]_vars
    /\ [](theme \in Themes)
    /\ [](pcLoad # "mount" => /\ storedTheme = theme
                              /\ rootClasses \cap Themes = {theme})
    /\ [](pcLoad = "mount" =>
             theme = (IF storedTheme = NoTheme THEN "light" ELSE storedTheme))

\* a page loaded again after the theme was switched to dark, before its
\* effects have run
C11_Witness ==
    /\ pcLoad = "mount"
    /\ storedTheme = "dark"
    /\ theme = "dark"
    /\ rootClasses = {}

\* C12: activeTab is 'Dashboard' at first and always one of the three tab
\* names; a click on a NavItem sets activeTab to the name of the item and
\* leaves theme, currentRatings, ratingHistory, loading and error as they
\* were.
C12_ThreeTabs ==
    /\ activeTab = "Dashboard"
    /\ [](activeTab \in {"Dashboard", "Player Stats", "Game Analysis"})
    /\ [][\A name \in Tabs : SetActiveTab(name) =>
             /\ activeTab' = name
             /\ UNCHANGED <<theme, currentRatings, ratingHistory, loading, error>>]_vars

\* a tab clicked while the data load was under way, the theme switched, and
\* the load finished with a ratings table
C12_Witness ==
    /\ activeTab = "Player Stats"
    /\ theme = "dark"
    /\ pcLoad = "done"
    /\ currentRatings # <<>>
    /\ ~loading /\ error = NoError

-----------------------------------------------------------------------------
(* Properties of GameAnalysis and its engine worker, checked under Spec.    *)

\* the step posts command c to the worker
Posts(c) == inbox' = Append(inbox, c)

\* the step hands the worker's message of this type to onMessage
Receives(type) == outbox # <<>> /\ Head(outbox).type = type /\ outbox' = Tail(outbox)

\* C2: a handleLoadPgn that fails (the library rejects the cleaned PGN, or
\* it holds no move) leaves a pgnError that is not empty, an empty history,
\* currentMove -1, evaluation '', no top moves and the starting position on
\* the board, and posts nothing to the worker.
C2_FailedLoadResets ==
    [][(handleLoadPgn /\ LoadFails(pgn)) =>
          /\ pgnError' # ""
          /\ history' = <<>>
          /\ currentMove' = -1
          /\ evaluation' = EvalEmpty
          /\ topMoves' = <<>>
          /\ game' = NewChess(StartFen)
          /\ inbox' = inbox]_vars

\* a failed load (an error with no message, so the fallback text shows)
\* that followed a loaded game in which the user had stepped to a move
C2_Witness ==
    /\ pgnError = FallbackText
    /\ history = <<>>
    /\ Fen(currentGameForEngine) # StartFen
    /\ game = NewChess(StartFen)

\* C3: the evaluation and the top moves on display come only from engine
\* output produced for the latest 'position fen' / 'go depth' request.
C3_ResponsesCorrelated ==
    /\ evaluation.kind = "score" => evalFor = reqPos
    /\ topFor # NoFen => topFor = reqPos

\* C4: 'uci' is the first command posted to a new worker, 'isready' is
\* posted only on receiving 'uciok', and engineStatus goes from
\* 'Loading...' to 'Ready' only on receiving 'readyok'.
C4_Handshake ==
    /\ [][(stockfish' # stockfish /\ stockfish' # 0) => inbox' = <<Cmd("uci")>>]_vars
    /\ [][Posts(Cmd("isready")) => Receives("uciok")]_vars
    /\ [][(engineStatus = "Loading..." /\ engineStatus' = "Ready") => Receives("readyok")]_vars

\* the second worker has gone through the handshake
C4_Witness ==
    /\ engineStatus = "Ready"
    /\ stockfish = 2
    /\ reqPos = NoFen

Running == {w \in 1..MaxWorkers : workerStatus[w] = "running"}

\* C5: at most one worker is not terminated, and exactly when GameAnalysis
\* is mounted; unmounting terminates it and removes its listener, nothing
\* changes the component's or the App's state while it is unmounted, and a
\* remount creates a new worker and starts the handshake again.
C5_OneWorker ==
    /\ [](/\ Cardinality(Running) <= 1
          /\ Mounted => Running = {stockfish} /\ listening = {stockfish}
          /\ ~Mounted => Running = {} /\ listening = {} /\ stockfish = 0
                          /\ inbox = <<>> /\ outbox = <<>>)
    /\ [][(~Mounted /\ ~Mounted') => UNCHANGED <<gaState, appVars>>]_vars
    /\ [][(~Mounted /\ Mounted') =>
             /\ workerStatus[stockfish'] = "none"
             /\ workerStatus'[stockfish'] = "running"
             /\ engineStatus' = "Loading..."
             /\ inbox' = <<Cmd("uci")>>]_vars

\* GameAnalysis mounted a second time, its first worker terminated
C5_Witness ==
    /\ Mounted
    /\ stockfish = 2
    /\ workerStatus[1] = "terminated"
    /\ engineStatus = "Ready"

\* the commands the step adds at the end of the worker's queue
Posted ==
    IF Len(inbox') >= Len(inbox) /\ SubSeq(inbox', 1, Len(inbox)) = inbox
    THEN SubSeq(inbox', Len(inbox) + 1, Len(inbox'))
    ELSE <<>>

\* C13: 'position fen' and 'go depth 15' are posted only while engineStatus
\* is 'Ready', always as the pair position, go, next to each other, in a
\* step that sets evaluation to '...' and clears topMoves; a getEvaluation
\* (from navigateToMove) while engineStatus is not 'Ready' posts nothing
\* and leaves evaluation and topMoves as they were.
C13_GatedRequests ==
    /\ [][(\E i \in 1..Len(Posted) : Posted[i].cmd \in {"position", "go"}) =>
            /\ engineStatus = "Ready"
            /\ \E fen \in SUBSET SanMoves : Posted = <<PositionCmd(fen), Cmd("go")>>
            /\ evaluation' = EvalPending
            /\ topMoves' = <<>>]_vars
    /\ [](\A i \in 1..Len(inbox) :
             inbox[i].cmd = "position" => (i < Len(inbox) /\ inbox[i + 1].cmd = "go"))
    /\ [][(engineStatus # "Ready" /\ \E index \in -1..(Len(history) - 1) : navigateToMove(index))
            => /\ inbox' = inbox
               /\ evaluation' = evaluation
               /\ topMoves' = topMoves]_vars

\* the position after 1. e4 was requested while the engine was ready; then
\* the worker failed and the user stepped on to 1... e5 with no request
C13_Witness ==
    /\ engineStatus = "Error"
    /\ currentMove = 1
    /\ Fen(game) = {"e4", "e5"}
    /\ reqPos = {"e4"}

\* C14: a handleLoadPgn whose cleaned PGN the library accepts with at least
\* one move leaves pgnError empty, the move list of the PGN (not empty) in
\* history, currentMove -1 and the starting position on the board, and
\* posts the request for the starting position. The move list is the main
\* line of the PGN: for '1. e4 e5' the two moves, for the annotated game
\* its four moves without the comment, the glyph and the variation.
C14_SuccessfulLoad ==
    [][handleLoadPgn =>
         /\ ~LoadFails(pgn) =>
              /\ pgnError' = ""
              /\ history' # <<>>
              /\ currentMove' = -1
              /\ game'.start = StartFen /\ game'.moves = <<>>
              /\ inbox' = inbox \o <<PositionCmd(StartFen), Cmd("go")>>
              /\ evaluation' = EvalPending
         /\ pgn = <<"e4", "e5">> => history' = <<"e4", "e5">>
         /\ pgn = <<"[T]", "e4", "{", "c", "}", "e5", "$1", "(", "Nc6", ")", "Nf3", "Nc6">>
              => history' = <<"e4", "e5", "Nf3", "Nc6">>]_vars

\* the annotated game has just been loaded
C14_Witness ==
    /\ history = <<"e4", "e5", "Nf3", "Nc6">>
    /\ pgnError = ""
    /\ currentMove = -1
    /\ evaluation = EvalPending
    /\ inbox = <<PositionCmd(StartFen), Cmd("go")>>

\* C15: -1 <= currentMove <= history.length - 1 in every state of the
\* GameAnalysis of part_002, whatever loads, clicks on moves and arrows came
\* before; goToPreviousMove at -1 and goToNextMove at the last move change
\* nothing.
C15_NavigationBounds ==
    /\ [](-1 <= currentMove /\ currentMove <= Len(history) - 1)
    /\ [][(goToPreviousMove /\ currentMove = -1) => UNCHANGED vars]_vars
    /\ [][(goToNextMove /\ currentMove = Len(history) - 1) => UNCHANGED vars]_vars

\* the last move of the four-move game is on the board
C15_Witness ==
    /\ Len(history) = 4
    /\ currentMove = 3
    /\ game.moves = history

\* C16: navigateToMove(index) for -1 <= index < history.length puts the
\* position after history[0..index] (from the standard start) on the board,
\* sets currentMove to index, leaves history alone and asks for the
\* evaluation of that position (posted if the engine is ready, nothing
\* posted otherwise).
C16_NavigateReplays ==
    [][\A index \in -1..(Len(history) - 1) : navigateToMove(index) =>
          /\ game'.start = StartFen
          /\ game'.moves = SubSeq(history, 1, index + 1)
          /\ currentMove' = index
          /\ history' = history
          /\ IF engineStatus = "Ready"
             THEN inbox' = inbox \o <<PositionCmd({history[i] : i \in 1..(index + 1)}),
                                      Cmd("go")>>
             ELSE inbox' = inbox]_vars

\* the third move of the four-move game was clicked
C16_Witness ==
    /\ Len(history) = 4
    /\ currentMove = 2
    /\ game.moves = <<"e4", "e5", "Nf3">>
    /\ reqPos = {"e4", "e5", "Nf3"}
    /\ inbox = <<PositionCmd({"e4", "e5", "Nf3"}), Cmd("go")>>

\* C17: between handlers, the reference position currentGameForEngine is the
\* position of the displayed board.
C17_ReferenceMatchesBoard == Fen(currentGameForEngine) = Fen(game)

\* C18: an engine message other than 'readyok' and 'uciok' with
\* 'score cp N' sets evaluation to N hundredths of a pawn, written with its
\* sign, the whole pawns and two decimals; a message without 'score cp'
\* ('score mate' lines, 'bestmove', 'id') leaves evaluation as it was.
C18_CentipawnsToPawns ==
    [][(DeliverMessage /\ Head(outbox).type \notin {"readyok", "uciok"}) =>
         IF Head(outbox).score = "cp"
         THEN /\ evaluation'.kind = "score"
              /\ evaluation'.frac \in 0..99
              /\ evaluation'.whole >= 0
              /\ evaluation'.neg = (Head(outbox).cp < 0)
              /\ (IF evaluation'.neg THEN 0 - 1 ELSE 1)
                   * (100 * evaluation'.whole + evaluation'.frac) = Head(outbox).cp
         ELSE evaluation' = evaluation]_vars

\* a line of the search after 1. e4 gave -1.4x; the 'score mate' line of a
\* later search then arrived and left it
C18_Witness ==
    /\ evaluation.kind = "score"
    /\ evaluation.neg /\ evaluation.whole = 1
    /\ evalFor = {"e4"}
    /\ topFor = {"e4", "e5", "Nf3"}

\* C19: an engine message with 'info depth' and ' pv ' replaces topMoves by
\* the SAN of those of its first three pv moves that are legal in the
\* reference position, in pv order (so at most 3); the other moves are
\* skipped, and the reference position stays as it was.
C19_TopMovesLegal ==
    [][(DeliverMessage /\ Head(outbox).type = "info" /\ Head(outbox).pv # <<>>) =>
         LET pv == Head(outbox).pv
             n == IF Len(pv) < 3 THEN Len(pv) ELSE 3
             legalAt == {i \in 1..n : Legal(Fen(currentGameForEngine), UciToSan(pv[i]))}
         IN /\ Len(topMoves') = Cardinality(legalAt)
            /\ Len(topMoves') <= 3
            /\ \A k \in 1..Len(topMoves') :
                 \E i \in legalAt : /\ Cardinality({j \in legalAt : j <= i}) = k
                                     /\ topMoves'[k] = UciToSan(pv[i])
            /\ currentGameForEngine' = currentGameForEngine]_vars

\* the line for the starting position: of e2e4 e7e5 g1f3 the second is not
\* legal there and was skipped
C19_Witness ==
    /\ topMoves = <<"e4", "Nf3">>
    /\ topFor = StartFen
    /\ Fen(currentGameForEngine) = StartFen

\* C20: in part_002 an engine message with 'info depth' and ' pv ' replaces
\* topMoves by the SAN of those of its first five pv moves that are legal
\* in the reference position.
C20_PvReplacesTopMoves ==
    [][(DeliverMessage002 /\ Head(outbox).type = "info" /\ Head(outbox).pv # <<>>) =>
         LET pv == Head(outbox).pv
             n == IF Len(pv) < 5 THEN Len(pv) ELSE 5
             legalAt == {i \in 1..n : Legal(Fen(currentGameForEngine), UciToSan(pv[i]))}
         IN /\ Len(topMoves') = Cardinality(legalAt)
            /\ \A k \in 1..Len(topMoves') :
                 \E i \in legalAt : /\ Cardinality({j \in legalAt : j <= i}) = k
                                     /\ topMoves'[k] = UciToSan(pv[i])]_vars

-----------------------------------------------------------------------------
(* Properties of fetchPlayerAnalysis, checked under PlayerSpec.             *)

\* the step is the PlayerStats effect calling fetchPlayerAnalysis(user)
CallsFetch(user) == SelectPlayer(user) \/ (PlayerStatsMount /\ user = selectedPlayer)

C24_DataOfSelectedPlayer ==
    (~psLoading /\ playerData # NullData) => playerData.user = selectedPlayer

\* C25: when the stats or the archives request of a fetchPlayerAnalysis call
\* rejects or has a status that is not ok, the call resolves to null, the
\* cache entries stay as they were, and the .then of PlayerStats leaves
\* loading false and playerData null.
C25_FailureLeavesCache ==
    [][\A c \in calls : StatsFail(c) =>
          /\ cache' = cache
          /\ playerData' = NullData
          /\ ~psLoading'
          /\ c \notin calls']_vars

\* the entry of realulysse written at time 0 was 24 hours old when the
\* player was selected again; the new requests failed and the entry is
\* still there
C25_Witness ==
    /\ selectedPlayer = "realulysse"
    /\ cache["realulysse"].present /\ cache["realulysse"].timestamp = 0
    /\ now = CacheTtlMs
    /\ nCalls = 3
    /\ calls = {}
    /\ netRequests = 7
    /\ playerData = NullData
    /\ ~psLoading

-----------------------------------------------------------------------------
(* The cleaned PGN against a PGN scanner that reads the movetext once.      *)

\* index of the ')' that closes a variation opened before s[i], comments
\* skipped; 0 when there is none
RECURSIVE VariationEnd(_, _)
VariationEnd(s, i) ==
    IF i > Len(s) THEN 0
    ELSE IF s[i] = "{" /\ FirstIndex(s, "}", i + 1) > 0
         THEN VariationEnd(s, FirstIndex(s, "}", i + 1) + 1)
    ELSE IF s[i] = ")" THEN i
    ELSE VariationEnd(s, i + 1)

\* a '(' inside a variation that is still open, comments skipped
RECURSIVE Nested(_, _)
Nested(s, inVariation) ==
    IF s = <<>> THEN FALSE
    ELSE IF Head(s) = "{" /\ FirstIndex(s, "}", 2) > 0
         THEN Nested(SubSeq(s, FirstIndex(s, "}", 2) + 1, Len(s)), inVariation)
    ELSE IF Head(s) = "(" THEN inVariation \/ Nested(Tail(s), TRUE)
    ELSE IF Head(s) = ")" THEN Nested(Tail(s), FALSE)
    ELSE Nested(Tail(s), inVariation)

\* one pass over the movetext: a glyph is dropped, a comment is dropped up
\* to its '}', a variation up to its ')', every other token is kept
RECURSIVE Scan(_)
Scan(s) ==
    IF s = <<>> THEN <<>>
    ELSE IF Head(s) = "$1" THEN Scan(Tail(s))
    ELSE IF Head(s) = "{" /\ FirstIndex(s, "}", 2) > 0
         THEN Scan(SubSeq(s, FirstIndex(s, "}", 2) + 1, Len(s)))
    ELSE IF Head(s) = "(" /\ VariationEnd(s, 2) > 0
         THEN Scan(SubSeq(s, VariationEnd(s, 2) + 1, Len(s)))
    ELSE <<Head(s)>> \o Scan(Tail(s))

\* C26: the cleaned PGN is the tag pairs of the text in their order, then
\* the movetext without its glyphs and, where no variation is nested,
\* without its comments and variations, the other tokens kept in order
C26_CleanedPgn ==
    LET text == cleanResult.text
        out == cleanResult.cleaned
        tags == SelectTokens(text, TRUE)
        movetext == SelectTokens(text, FALSE)
        rest == SubSeq(out, Len(tags) + 1, Len(out))
    IN out # NotCleaned =>
          /\ Len(out) >= Len(tags)
          /\ SubSeq(out, 1, Len(tags)) = tags
          /\ \A i \in 1..Len(rest) : rest[i] # "$1" /\ ~IsTag(rest[i])
          /\ ~Nested(movetext, FALSE) => rest = Scan(movetext)

\* a variation that holds a comment with a ')' in it
C26_Witness ==
    /\ cleanResult.text = <<"(", "{", ")", "}", ")">>
    /\ cleanResult.cleaned = <<>>

-----------------------------------------------------------------------------
(* getAiCommentary of part_003.                                             *)

-----------------------------------------------------------------------------
(* The evaluation requests of part_003.                                     *)

\* the score the engine's last line of multipv index k gives for a search
LastLineScore(fen, k) ==
    LET line == Info003(fen, SearchDepths, k)
    IN IF line.score = "cp" THEN ToFixed2(line.cp) ELSE MateText(line.cp)

\* the first move of that line, in standard notation
LastLineSan(fen, k) == UciToSan(Info003(fen, SearchDepths, k).pv[1])

\* C21: when the 'bestmove' of a search reaches the page, evaluation is
\* the score of the last multipv-1 line of that search, topMoves has the
\* first moves and scores of its last lines by multipv index, three at
\* most, and no listener of a request for that position stays attached
C21_BestmoveSetsEvaluation ==
    [][(/\ DeliverMessage003
        /\ Head(outbox).type = "bestmove"
        /\ LinesPerDepth(Head(outbox).for) > 0) =>
          LET fen == Head(outbox).for IN
          /\ evaluation' = LastLineScore(fen, 1)
          /\ topMoves' = [k \in 1..Min(3, LinesPerDepth(fen)) |->
                             [san |-> LastLineSan(fen, k), score |-> LastLineScore(fen, k)]]
          /\ \A i \in 1..Len(listeners') : listeners'[i].fen # fen]_vars

\* C22: at most one request listener is attached, and messageHistory
\* holds no line twice
C22_OneListener ==
    /\ Len(listeners) <= 1
    /\ \A i, j \in 1..Len(messageHistory) :
          i # j => messageHistory[i] # messageHistory[j]
====
